---- MODULE Spec2Model ----
(***************************************************************************)
(* InterCom: jitter-absorbing ring buffer and adaptive playback-rate       *)
(* controller (src/src/buffer2Register.py, class Buffering).               *)
(*                                                                         *)
(* Two activities share the Buffering object:                              *)
(*   - the audio callback _record_IO_and_play, once per hardware period;   *)
(*   - the receive thread of run(): first receive_and_buffer, the seed of  *)
(*     played_chunk_number, then receive_and_buffer for ever;              *)
(* and a third thread logs the buffer status.                              *)
(*                                                                         *)
(* Samples are signed 16-bit integers, bytes are 0..255, a chunk is the    *)
(* flat (C-order) sequence of its frames' samples, and playback_speed is   *)
(* held in percent (105 for 1.05): int(frames * speed) is the same number  *)
(* as (frames * percent) \div 100 for the five speeds the code uses.       *)
(***************************************************************************)
EXTENDS Integers, Sequences, FiniteSets, TLC

(***************************************************************************)
(* Program constants.                                                      *)
(***************************************************************************)
CHUNK_NUMBERS == 32768          \* 1 << 15
WIRE_RANGE    == 65536          \* struct format "!H": unsigned 16 bits
INT16_RANGE   == 65536          \* dtype=np.int16

(***************************************************************************)
(* Bounds of the model.                                                    *)
(***************************************************************************)
MaxChunksToBuffer == 6          \* chunks_to_buffer ranges over 1..6
MaxFrames         == 2          \* frames_per_chunk ranges over 1..2
MaxDatagrams      == 2          \* datagrams taken off the socket
MaxPeriods        == 3          \* audio periods
MaxSamples        == 2          \* samples of a chunk given to the codec alone
MaxWireLen        == 4          \* bytes of a datagram given to unpack alone
MaxCloses         == 2          \* calls of close()

NUMBER_OF_CHANNELS == 1          \* samples per frame

(***************************************************************************)
(* Results of the library calls the codec makes: a value, or the exception *)
(* raised.                                                                 *)
(***************************************************************************)
StructError == "struct.error"
ValueError  == "ValueError"

Returned(v) == [ok |-> TRUE, val |-> v, err |-> ""]
Raised(e)   == [ok |-> FALSE, val |-> << >>, err |-> e]

Min(a, b) == IF a <= b THEN a ELSE b

(***************************************************************************)
(* The Python slice b[lo:hi] (0-based, hi excluded): it stops at the end   *)
(* of b and is empty when nothing lies in the range.                       *)
(***************************************************************************)
Slice(b, lo, hi) ==
    IF lo >= Min(hi, Len(b)) THEN << >> ELSE SubSeq(b, lo + 1, Min(hi, Len(b)))

\* The two bytes in the other order, as "<H" would give.
StructPackH_LittleEndian(n) ==
    IF n \in 0..(WIRE_RANGE - 1)
    THEN Returned(<< n % 256, n \div 256 >>)
    ELSE Raised(StructError)

(***************************************************************************)
(* struct.pack("!H", n): two bytes, most significant first; n must fit.    *)
(***************************************************************************)
StructPackH(n) ==
    IF n \in 0..(WIRE_RANGE - 1)
    THEN Returned(<< n \div 256, n % 256 >>)
    ELSE Raised(StructError)

(***************************************************************************)
(* struct.unpack("!H", b): needs exactly two bytes.                        *)
(***************************************************************************)
StructUnpackH(b) ==
    IF Len(b) = 2
    THEN Returned(b[1] * 256 + b[2])
    ELSE Raised(StructError)

(***************************************************************************)
(* ndarray.tobytes() of int16 samples: two's complement, low byte first.   *)
(***************************************************************************)
RECURSIVE ToBytes(_)
ToBytes(chunk) ==
    IF chunk = << >>
    THEN << >>
    ELSE LET u == Head(chunk) % INT16_RANGE
         IN  << u % 256, u \div 256 >> \o ToBytes(Tail(chunk))

(***************************************************************************)
(* np.frombuffer(b, dtype=np.int16): fails unless the length is a          *)
(* multiple of the element size.                                           *)
(***************************************************************************)
RECURSIVE DecodeSamples(_)
DecodeSamples(b) ==
    IF Len(b) < 2
    THEN << >>
    ELSE LET u == b[1] + 256 * b[2]
             s == IF u >= INT16_RANGE \div 2 THEN u - INT16_RANGE ELSE u
         IN  << s >> \o DecodeSamples(Slice(b, 2, Len(b)))

\* A trailing odd byte ignored instead of refused.
FromBuffer_Lenient(b) == Returned(DecodeSamples(b))

FromBuffer(b) ==
    IF Len(b) % 2 = 0
    THEN Returned(DecodeSamples(b))
    ELSE Raised(ValueError)

\* A byte of padding after the samples.
pack_Padded(chunk_no, chunk) ==
    LET head == StructPackH(chunk_no)
    IN  IF head.ok THEN Returned(head.val \o ToBytes(chunk) \o << 0 >>) ELSE head

(***************************************************************************)
(* Buffering.pack: the chunk number, then the samples.                     *)
(***************************************************************************)
pack(chunk_no, chunk) ==
    LET head == StructPackH(chunk_no)
    IN  IF head.ok THEN Returned(head.val \o ToBytes(chunk)) ELSE head

(***************************************************************************)
(* Buffering.unpack: val is the pair <<chunk_number, chunk>>.              *)
(***************************************************************************)
unpack(packed_chunk) ==
    LET n == StructUnpackH(Slice(packed_chunk, 0, 2))
        c == FromBuffer(Slice(packed_chunk, 2, Len(packed_chunk)))
    IN  IF ~n.ok THEN n
        ELSE IF ~c.ok THEN c
        ELSE Returned(<< n.val, c.val >>)

\* Occupancy taken after the play cursor has advanced.
ChunksInBuffer_AfterAdvance(chunk_no, played_no, cells) ==
    (chunk_no - (played_no + 1)) % cells

\* The difference taken without the modulus.
ChunksInBuffer_NoModulus(chunk_no, played_no, cells) ==
    chunk_no - played_no

(***************************************************************************)
(* The occupancy both log_buffer_status and adjust_playback_speed compute. *)
(* Python's % takes the sign of the divisor, as TLA+'s does.               *)
(***************************************************************************)
ChunksInBuffer(chunk_no, played_no, cells) ==
    (chunk_no - played_no) % cells

\* The first comparison made strict.
adjust_playback_speed_Strict(in_buffer, to_buffer) ==
    IF in_buffer > to_buffer - 2 THEN 105
    ELSE IF in_buffer = 3 THEN 95
    ELSE IF in_buffer = 2 THEN 80
    ELSE IF in_buffer = 1 THEN 60
    ELSE 100

\* The speeds of the branches for 3 and for 2 chunks exchanged.
adjust_playback_speed_Swapped(in_buffer, to_buffer) ==
    IF in_buffer >= to_buffer - 2 THEN 105
    ELSE IF in_buffer = 3 THEN 80
    ELSE IF in_buffer = 2 THEN 95
    ELSE IF in_buffer = 1 THEN 60
    ELSE 100

(***************************************************************************)
(* Buffering.adjust_playback_speed: the speed chosen for an occupancy, in  *)
(* percent.                                                                *)
(***************************************************************************)
adjust_playback_speed(in_buffer, to_buffer) ==
    IF in_buffer >= to_buffer - 2 THEN 105
    ELSE IF in_buffer = 3 THEN 95
    ELSE IF in_buffer = 2 THEN 80
    ELSE IF in_buffer = 1 THEN 60
    ELSE 100

(***************************************************************************)
(* int(frames_per_chunk * playback_speed)                                  *)
(***************************************************************************)
AdjustedFrames(frames, speed) == (frames * speed) \div 100

(***************************************************************************)
(* chunk.reshape(frames, channels) succeeds iff the sizes agree.           *)
(***************************************************************************)
Reshapes(chunk, frames) == Len(chunk) = frames * NUMBER_OF_CHANNELS

\* The rendering without the zero fill of the frames not copied.
Render_NoZeroFill(dac, chunk, frames, speed) ==
    LET copied == Min((frames * speed) \div 100, frames) * NUMBER_OF_CHANNELS
    IN  [i \in 1..(frames * NUMBER_OF_CHANNELS) |->
            IF i <= copied THEN chunk[i] ELSE dac[i]]

(***************************************************************************)
(* The rendering of play_chunk into the output frame dac, for a chunk that *)
(* reshapes: slices beyond the end stop at the end.                        *)
(*   DAC[:adjusted_frames] = chunk[:adjusted_frames]                       *)
(*   if adjusted_frames < frames_per_chunk: DAC[adjusted_frames:] = 0      *)
(***************************************************************************)
Render(dac, chunk, frames, speed) ==
    LET adjusted_frames == AdjustedFrames(frames, speed)
        size   == frames * NUMBER_OF_CHANNELS
        copied == Min(adjusted_frames, frames) * NUMBER_OF_CHANNELS
        filled == [i \in 1..size |-> IF i <= copied THEN chunk[i] ELSE dac[i]]
    IN  IF adjusted_frames < frames
        THEN [i \in 1..size |->
                 IF i > adjusted_frames * NUMBER_OF_CHANNELS THEN 0 ELSE filled[i]]
        ELSE filled

\* A buffering time taken as it is given.
CoerceBufferingTime_Keep(buffering_time) == buffering_time

(***************************************************************************)
(* Buffering.__init__:                                                     *)
(*   if minimal.args.buffering_time <= 0: minimal.args.buffering_time = 1  *)
(***************************************************************************)
CoerceBufferingTime(buffering_time) ==
    IF buffering_time <= 0 THEN 1 ELSE buffering_time

(***************************************************************************)
(* int(math.ceil(buffering_time / 1000 / self.chunk_time)), buffering_time *)
(* an int of milliseconds, chunk_time a double of seconds, here given in   *)
(* whole milliseconds.  The two divisions are IEEE double divisions, and   *)
(* for some pairs whose exact quotient is an integer the double quotient   *)
(* lies just above it (0.035 / 0.005 = 7.000000000000001), so that ceil    *)
(* gives one more.  QuotientAbove lists these pairs among buffering times  *)
(* up to 70 ms and chunk times of 1, 5 and 10 ms, as the double            *)
(* arithmetic gives them; for all other such pairs ceil of the double      *)
(* quotient is the ceiling of the exact one.                               *)
(***************************************************************************)
QuotientAbove == { << 35, 5 >>, << 70, 5 >>, << 70, 10 >> }

ChunksToBuffer(buffering_time, chunk_time) ==
    LET ceiling == (buffering_time + chunk_time - 1) \div chunk_time
    IN  IF << buffering_time, chunk_time >> \in QuotientAbove
        THEN ceiling + 1
        ELSE ceiling

\* The ring left without its silence: empty cells.
ZeroChunk_Unfilled(frames) == << >>

(***************************************************************************)
(* generate_zero_chunk(): silence of one chunk's size.                     *)
(***************************************************************************)
ZeroChunk(frames) == [i \in 1..(frames * NUMBER_OF_CHANNELS) |-> 0]

\* The slot taken modulo chunks_to_buffer instead of cells_in_buffer.
buffer_chunk_HalfRing(buf, cells, chunk_no, chunk) ==
    [buf EXCEPT ![chunk_no % (cells \div 2)] = chunk]

(***************************************************************************)
(* Buffering.buffer_chunk: one slot of the ring is replaced.               *)
(***************************************************************************)
buffer_chunk(buf, cells, chunk_no, chunk) ==
    [buf EXCEPT ![chunk_no % cells] = chunk]

\* The slot after the play cursor is read.
unbuffer_next_chunk_Ahead(buf, cells, played_no) ==
    buf[(played_no + 1) % cells]

(***************************************************************************)
(* Buffering.unbuffer_next_chunk: the chunk the play cursor points at.     *)
(***************************************************************************)
unbuffer_next_chunk(buf, cells, played_no) ==
    buf[played_no % cells]

\* The cursor advanced without wrapping.
AdvancePlayed_NoWrap(played_no, cells) == played_no + 1

(***************************************************************************)
(* The cursor advance of play_chunk.                                       *)
(***************************************************************************)
AdvancePlayed(played_no, cells) == (played_no + 1) % cells

\* The seed one position further behind the first chunk.
SeedPlayed_OneLate(first_no, to_buffer, cells) ==
    (first_no - to_buffer - 1) % cells

\* The seed placed at the first chunk itself, with no latency behind it.
SeedPlayed_NoLatency(first_no, to_buffer, cells) == first_no % cells

(***************************************************************************)
(* The seed of run(): <chunks_to_buffer> positions behind the first chunk. *)
(***************************************************************************)
SeedPlayed(first_no, to_buffer, cells) == (first_no - to_buffer) % cells

\* The counter wrapping with the two-byte field of the packet.
NextChunkNumber_WireWrap(chunk_no) == (chunk_no + 1) % WIRE_RANGE

(***************************************************************************)
(* The counter increment of _record_IO_and_play.                           *)
(***************************************************************************)
NextChunkNumber(chunk_no) == (chunk_no + 1) % CHUNK_NUMBERS

(***************************************************************************)
(* What the model feeds the program.                                       *)
(***************************************************************************)
\* Sequence numbers of the datagrams that arrive: both ends of the wire
\* range, two numbers that share a slot of a ten-cell ring, and one below
\* every chunks_to_buffer.
SeqInputs == {0, 5, 15, 100, WIRE_RANGE - 1}

\* The audible chunk the datagram numbered s carries: positive two-byte
\* samples for even s, negative samples for odd s, different for each s.
Payload(s, frames) ==
    [i \in 1..(frames * NUMBER_OF_CHANNELS) |->
        IF s % 2 = 0 THEN 256 * i + (s % 128) ELSE 0 - ((s % 128) + i)]

\* The frame the sound card captured in a period.
Captured(frames) == [i \in 1..(frames * NUMBER_OF_CHANNELS) |-> i]

\* Datagrams whose payload is a whole chunk.
ChunkDatagrams(frames) ==
    { pack(s, Payload(s, frames)).val : s \in SeqInputs }

\* A well-formed datagram that carries one sample too many.
LongDatagrams(frames) ==
    { pack(5, Payload(5, frames) \o << 7 >>).val }

\* Datagrams unpack cannot split: one byte, and an odd payload.
MalformedDatagrams == { << 0 >>, << 0, 5, 1 >> }

Datagrams(frames) ==
    ChunkDatagrams(frames) \cup LongDatagrams(frames) \cup MalformedDatagrams

\* What the output frame holds when the callback is entered.
GarbageSamples == {0, 77}

\* The production counter when the model starts to watch: just constructed,
\* or two periods before the counter wraps (periods that ran with no
\* datagram received yet).
StartCounters == {0, CHUNK_NUMBERS - 2}

(***************************************************************************)
(* State.                                                                  *)
(***************************************************************************)
VARIABLES
    chunks_to_buffer,       \* self.chunks_to_buffer
    cells_in_buffer,        \* self.cells_in_buffer
    frames_per_chunk,       \* minimal.args.frames_per_chunk
    _buffer,                \* self._buffer: slot -> chunk
    chunk_number,           \* self.chunk_number
    played_chunk_number,    \* self.played_chunk_number
    playback_speed,         \* self.playback_speed, in percent
    DAC,                    \* the output frame the last period left
    sent,                   \* the last packed chunk handed to send()
    csv,                    \* the last row log_buffer_status wrote, if any
    rx,                     \* where run() is: "first", "seed", "loop", "dead"
    first_received_chunk_number,
    stream,                 \* "active", "aborted" (callback raised), "closed"
    received,               \* history: the <<chunk_number, chunk>> buffered
    last_period,            \* history: what the last period saw and did
    n_periods,              \* history: periods run
    codec,                  \* the codec on its own: input, bytes, output
    args,                   \* minimal.args.buffering_time as given and as
                            \* the constructor left it; self.chunk_time, ms
    driver                  \* the class of the engine; for Echo_Cancellation
                            \* its running flag and where its callback is

vars == << chunks_to_buffer, cells_in_buffer, frames_per_chunk, _buffer,
           chunk_number, played_chunk_number, playback_speed, DAC, sent, csv,
           rx, first_received_chunk_number, stream, received, last_period,
           n_periods, codec, driver, args >>

config == << chunks_to_buffer, cells_in_buffer, frames_per_chunk, args >>

\* The arguments that give to_buffer chunks of 1 ms each.
ArgsOf(to_buffer) ==
    [given |-> to_buffer, buffering_time |-> to_buffer, chunk_time |-> 1]

NoPeriod == [ran |-> FALSE]

engine == << config, _buffer, chunk_number, played_chunk_number,
             playback_speed, DAC, sent, csv, rx, first_received_chunk_number,
             stream, received, last_period, n_periods, driver >>

CodecIdle == [stage |-> "idle"]

BufferingDriver == [class |-> "Buffering"]

(***************************************************************************)
(* Buffering.__init__ followed by the start of run(); for a start counter  *)
(* k > 0, followed by k periods of silence as well: both cursors have      *)
(* counted k steps, the ring still holds silence.                          *)
(***************************************************************************)
Init ==
    \E to_buffer \in 1..MaxChunksToBuffer, frames \in 1..MaxFrames,
       start \in StartCounters :
        /\ chunks_to_buffer = to_buffer
        /\ cells_in_buffer = to_buffer * 2
        /\ frames_per_chunk = frames
        /\ _buffer = [i \in 0..(to_buffer * 2 - 1) |-> ZeroChunk(frames)]
        /\ chunk_number = start
        /\ played_chunk_number = start % (to_buffer * 2)
        /\ playback_speed =
              IF start = 0 THEN 100
              ELSE adjust_playback_speed(
                       ChunksInBuffer(start, (start - 1) % (to_buffer * 2),
                                      to_buffer * 2), to_buffer)
        /\ DAC = IF start = 0 THEN << >> ELSE ZeroChunk(frames)
        /\ sent = IF start = 0 THEN << >> ELSE pack(start, Captured(frames)).val
        /\ csv = << >>
        /\ rx = "first"
        /\ first_received_chunk_number = 0
        /\ stream = "active"
        /\ received = << >>
        /\ last_period = NoPeriod
        /\ n_periods = 0
        /\ codec = CodecIdle
        /\ driver = BufferingDriver
        /\ args = ArgsOf(to_buffer)

(***************************************************************************)
(* Buffering._record_IO_and_play: one audio period.                        *)
(*   chunk_number += 1 (mod CHUNK_NUMBERS); send(pack(chunk_number, ADC))  *)
(*   adjust_playback_speed(); chunk = unbuffer_next_chunk()                *)
(*   play_chunk(DAC, chunk): advance the cursor, reshape, render.          *)
(* A chunk that does not reshape raises in the callback, after the cursor  *)
(* advanced: the output frame is left as it came and the stream calls the  *)
(* callback no more.                                                       *)
(***************************************************************************)
RecordIOAndPlay ==
    /\ stream = "active"
    /\ n_periods < MaxPeriods
    /\ \E g \in GarbageSamples :
        LET number == NextChunkNumber(chunk_number)
            packed == pack(number, Captured(frames_per_chunk))
            in_buffer == ChunksInBuffer(number, played_chunk_number,
                                        cells_in_buffer)
            speed == adjust_playback_speed(in_buffer, chunks_to_buffer)
            chunk == unbuffer_next_chunk(_buffer, cells_in_buffer,
                                         played_chunk_number)
            dac == [i \in 1..(frames_per_chunk * NUMBER_OF_CHANNELS) |-> g]
            fits == Reshapes(chunk, frames_per_chunk)
        IN  /\ chunk_number' = number
            /\ sent' = packed.val
            /\ playback_speed' = speed
            /\ played_chunk_number' =
                   AdvancePlayed(played_chunk_number, cells_in_buffer)
            /\ DAC' = IF fits
                      THEN Render(dac, chunk, frames_per_chunk, speed)
                      ELSE dac
            /\ stream' = IF fits THEN stream ELSE "aborted"
            /\ last_period' = [ran |-> TRUE, chunks_in_buffer |-> in_buffer,
                               slot |-> played_chunk_number % cells_in_buffer,
                               chunk |-> chunk,
                               raised |-> ~fits]
    /\ n_periods' = n_periods + 1
    /\ UNCHANGED << config, codec, driver, _buffer, csv, rx, first_received_chunk_number,
                    received >>

(***************************************************************************)
(* Buffering.receive_and_buffer on datagram d.  When unpack raises, run()  *)
(* is left by the exception: the stream is closed by its with block.       *)
(***************************************************************************)
ReceiveAndBuffer(d, then) ==
    LET u == unpack(d)
    IN  IF u.ok
        THEN /\ _buffer' = buffer_chunk(_buffer, cells_in_buffer,
                                        u.val[1], u.val[2])
             /\ received' = Append(received, u.val)
             /\ rx' = then
             /\ first_received_chunk_number' =
                    IF rx = "first" THEN u.val[1]
                    ELSE first_received_chunk_number
             /\ UNCHANGED stream
        ELSE /\ rx' = "dead"
             /\ stream' = "closed"
             /\ UNCHANGED << _buffer, received, first_received_chunk_number >>

\* run(): first_received_chunk_number = self.receive_and_buffer()
ReceiveFirst ==
    /\ rx = "first"
    /\ \E d \in Datagrams(frames_per_chunk) : ReceiveAndBuffer(d, "seed")
    /\ UNCHANGED << config, codec, driver, chunk_number, played_chunk_number, playback_speed,
                    DAC, sent, csv, last_period, n_periods >>

\* The cursor seeded again from every datagram that follows the first.
Seed_Again ==
    /\ rx \in {"seed", "loop"}
    /\ received # << >>
    /\ played_chunk_number' =
           SeedPlayed(received[Len(received)][1], chunks_to_buffer,
                      cells_in_buffer)
    /\ rx' = "loop"
    /\ UNCHANGED << config, codec, driver, _buffer, chunk_number, playback_speed, DAC, sent,
                    csv, first_received_chunk_number, stream, received,
                    last_period, n_periods >>

\* run(): self.played_chunk_number = (first - chunks_to_buffer) % cells
Seed ==
    /\ rx = "seed"
    /\ played_chunk_number' =
           SeedPlayed(first_received_chunk_number, chunks_to_buffer,
                      cells_in_buffer)
    /\ rx' = "loop"
    /\ UNCHANGED << config, codec, driver, _buffer, chunk_number, playback_speed, DAC, sent,
                    csv, first_received_chunk_number, stream, received,
                    last_period, n_periods >>

\* run(): while True: self.receive_and_buffer()
ReceiveLoop ==
    /\ rx = "loop"
    /\ Len(received) < MaxDatagrams
    /\ \E d \in Datagrams(frames_per_chunk) : ReceiveAndBuffer(d, "loop")
    /\ UNCHANGED << config, codec, driver, chunk_number, played_chunk_number, playback_speed,
                    DAC, sent, csv, last_period, n_periods >>

(***************************************************************************)
(* Buffering.log_buffer_status, run every second by the logging thread     *)
(* while the process lives.                                                *)
(***************************************************************************)
LogBufferStatus ==
    /\ rx # "dead"
    /\ csv' = << ChunksInBuffer(chunk_number, played_chunk_number,
                                cells_in_buffer) >>
    /\ UNCHANGED << config, codec, driver, _buffer, chunk_number, played_chunk_number,
                    playback_speed, DAC, sent, rx,
                    first_received_chunk_number, stream, received,
                    last_period, n_periods >>

Next ==
    \/ RecordIOAndPlay
    \/ ReceiveFirst
    \/ Seed
    \/ ReceiveLoop
    \/ LogBufferStatus

Spec == Init /\ [][Next]_vars

(***************************************************************************)
(* The engine with its period in two steps.  The callback runs in the      *)
(* thread of the stream and run() in the main thread, with no lock         *)
(* between them, and the advance of play_chunk,                            *)
(*   self.played_chunk_number = (self.played_chunk_number + 1) % cells     *)
(* is a load of the attribute followed by a store: PeriodLoad is the       *)
(* period up to and with that load, PeriodStore the period from the store. *)
(* The chunk is read from the ring before the load: the list cell is       *)
(* loaded in one step and gives a reference to an array nothing writes to. *)
(*   callback     "idle", or "store" between load and store                *)
(*   played_read  the value the load gave                                  *)
(*   chunk        the chunk unbuffer_next_chunk returned                   *)
(***************************************************************************)
RaceIdle ==
    [class |-> "Buffering", callback |-> "idle", played_read |-> 0,
     chunk |-> << >>]

InitRace ==
    \E to_buffer \in 1..MaxChunksToBuffer, frames \in 1..MaxFrames :
        /\ chunks_to_buffer = to_buffer
        /\ cells_in_buffer = to_buffer * 2
        /\ frames_per_chunk = frames
        /\ _buffer = [i \in 0..(to_buffer * 2 - 1) |-> ZeroChunk(frames)]
        /\ chunk_number = 0
        /\ played_chunk_number = 0
        /\ playback_speed = 100
        /\ DAC = << >>
        /\ sent = << >>
        /\ csv = << >>
        /\ rx = "first"
        /\ first_received_chunk_number = 0
        /\ stream = "active"
        /\ received = << >>
        /\ last_period = NoPeriod
        /\ n_periods = 0
        /\ codec = CodecIdle
        /\ driver = RaceIdle
        /\ args = ArgsOf(to_buffer)

\* _record_IO_and_play from its start to the load of played_chunk_number
\* in play_chunk.
PeriodLoad ==
    /\ stream = "active"
    /\ driver.callback = "idle"
    /\ n_periods < MaxPeriods
    /\ LET number == NextChunkNumber(chunk_number)
           in_buffer == ChunksInBuffer(number, played_chunk_number,
                                       cells_in_buffer)
       IN  /\ chunk_number' = number
           /\ sent' = pack(number, Captured(frames_per_chunk)).val
           /\ playback_speed' =
                  adjust_playback_speed(in_buffer, chunks_to_buffer)
           /\ driver' = [driver EXCEPT
                  !.callback = "store",
                  !.played_read = played_chunk_number,
                  !.chunk = unbuffer_next_chunk(_buffer, cells_in_buffer,
                                                played_chunk_number)]
    /\ UNCHANGED << config, codec, _buffer, played_chunk_number, DAC, csv,
                    rx, first_received_chunk_number, stream, received,
                    last_period, n_periods >>

\* play_chunk from the store of played_chunk_number: reshape and render.
PeriodStore ==
    /\ driver.callback = "store"
    /\ \E g \in GarbageSamples :
        LET dac == [i \in 1..(frames_per_chunk * NUMBER_OF_CHANNELS) |-> g]
            fits == Reshapes(driver.chunk, frames_per_chunk)
        IN  /\ played_chunk_number' =
                   AdvancePlayed(driver.played_read, cells_in_buffer)
            /\ DAC' = IF fits
                      THEN Render(dac, driver.chunk, frames_per_chunk,
                                  playback_speed)
                      ELSE dac
            /\ stream' = IF fits THEN stream ELSE "aborted"
            /\ last_period' =
                   [ran |-> TRUE,
                    chunks_in_buffer |->
                        ChunksInBuffer(chunk_number, driver.played_read,
                                       cells_in_buffer),
                    slot |-> driver.played_read % cells_in_buffer,
                    chunk |-> driver.chunk,
                    raised |-> ~fits]
    /\ driver' = RaceIdle
    /\ n_periods' = n_periods + 1
    /\ UNCHANGED << config, codec, _buffer, chunk_number, playback_speed,
                    sent, csv, rx, first_received_chunk_number, received >>

NextRace ==
    \/ PeriodLoad
    \/ PeriodStore
    \/ ReceiveFirst
    \/ Seed
    \/ ReceiveLoop
    \/ LogBufferStatus

SpecRace == InitRace /\ [][NextRace]_vars

(***************************************************************************)
(* The engine from its constructor: Buffering.__init__ applied to a        *)
(* buffering time and a chunk time, then the operations of the engine.     *)
(***************************************************************************)
\* minimal.args.buffering_time, ms: negative, zero, and positive.
BufferingTimes == {0 - 5, 0, 1, 12, 35}

\* self.chunk_time, ms.
ChunkTimes == {5, 10}

InitConstruct ==
    \E given \in BufferingTimes, chunk_time \in ChunkTimes,
       frames \in 1..MaxFrames :
        LET buffering_time == CoerceBufferingTime(given)
            to_buffer == ChunksToBuffer(buffering_time, chunk_time)
        IN  /\ args = [given |-> given, buffering_time |-> buffering_time,
                       chunk_time |-> chunk_time]
            /\ chunks_to_buffer = to_buffer
            /\ cells_in_buffer = to_buffer * 2
            /\ frames_per_chunk = frames
            /\ _buffer = [i \in 0..(to_buffer * 2 - 1) |-> ZeroChunk(frames)]
            /\ chunk_number = 0
            /\ played_chunk_number = 0
            /\ playback_speed = 100
            /\ DAC = << >>
            /\ sent = << >>
            /\ csv = << >>
            /\ rx = "first"
            /\ first_received_chunk_number = 0
            /\ stream = "active"
            /\ received = << >>
            /\ last_period = NoPeriod
            /\ n_periods = 0
            /\ codec = CodecIdle
            /\ driver = BufferingDriver

SpecConstruct == InitConstruct /\ [][Next]_vars

(***************************************************************************)
(* The engine over a transport whose send can raise.  In                   *)
(* _record_IO_and_play the call self.send(packed_chunk) stands between the *)
(* increment of chunk_number and adjust_playback_speed, outside any try:   *)
(* when it raises, the rest of the callback is not run, the output frame   *)
(* stays as it came and the stream calls the callback no more.             *)
(***************************************************************************)
RecordIOSendFails ==
    /\ stream = "active"
    /\ n_periods < MaxPeriods
    /\ \E g \in GarbageSamples :
           DAC' = [i \in 1..(frames_per_chunk * NUMBER_OF_CHANNELS) |-> g]
    /\ chunk_number' = NextChunkNumber(chunk_number)
    /\ stream' = "aborted"
    /\ last_period' = NoPeriod
    /\ n_periods' = n_periods + 1
    /\ UNCHANGED << config, codec, driver, _buffer, played_chunk_number,
                    playback_speed, sent, csv, rx,
                    first_received_chunk_number, received >>

NextTransport ==
    \/ Next
    \/ RecordIOSendFails

SpecTransport == Init /\ [][NextTransport]_vars

(***************************************************************************)
(* The Echo_Cancellation driver (echo_cancellation_p.py), a subclass of    *)
(* Buffering that replaces the period and run(): its run() starts the      *)
(* stream in a thread and no receive loop; its period sends the captured   *)
(* chunk, then receives one datagram and plays it at once.  The OCNLMS     *)
(* filter of the period keeps weights of its own; what is sent is the      *)
(* captured chunk and what is played is the received one, so the filter    *)
(* is left out.                                                            *)
(***************************************************************************)
EchoDriver == [class |-> "Echo_Cancellation", running |-> TRUE,
               callback |-> "idle"]

\* The packet and the counter the other way round: count, then send.
SendThenCount_CountFirst(chunk_no, frames) ==
    [packet |-> pack(NextChunkNumber(chunk_no), Captured(frames)).val,
     chunk_number |-> NextChunkNumber(chunk_no)]

\* self.send(self.pack(self.chunk_number, ADC))
\* self.chunk_number = (self.chunk_number + 1) % self.CHUNK_NUMBERS
SendThenCount(chunk_no, frames) ==
    [packet |-> pack(chunk_no, Captured(frames)).val,
     chunk_number |-> NextChunkNumber(chunk_no)]

\* What self.receive() can hand to the period: the datagrams of the receive
\* loop and the empty datagram.
EchoDatagrams(frames) == Datagrams(frames) \cup { << >> }

\* Echo_Cancellation.__init__ and run(); for a start counter k > 0, k
\* periods as well.
InitEcho ==
    \E to_buffer \in 1..MaxChunksToBuffer, frames \in 1..MaxFrames,
       start \in StartCounters :
        /\ chunks_to_buffer = to_buffer
        /\ cells_in_buffer = to_buffer * 2
        /\ frames_per_chunk = frames
        /\ _buffer = [i \in 0..(to_buffer * 2 - 1) |-> ZeroChunk(frames)]
        /\ chunk_number = start
        /\ played_chunk_number = 0
        /\ playback_speed = 100
        /\ DAC = IF start = 0 THEN << >> ELSE ZeroChunk(frames)
        /\ sent = IF start = 0 THEN << >>
                  ELSE pack(start - 1, Captured(frames)).val
        /\ csv = << >>
        /\ rx = "none"
        /\ first_received_chunk_number = 0
        /\ stream = "active"
        /\ received = << >>
        /\ last_period = NoPeriod
        /\ n_periods = 0
        /\ codec = CodecIdle
        /\ driver = EchoDriver
        /\ args = ArgsOf(to_buffer)

\* Echo_Cancellation._record_IO_and_play up to its call of self.receive():
\* the running test, the send and the increment.
EchoRecordIOSend ==
    /\ driver.class = "Echo_Cancellation"
    /\ driver.callback = "idle"
    /\ stream = "active"
    /\ n_periods < MaxPeriods
    /\ IF driver.running
       THEN LET s == SendThenCount(chunk_number, frames_per_chunk)
            IN  /\ sent' = s.packet
                /\ chunk_number' = s.chunk_number
                /\ driver' = [driver EXCEPT !.callback = "receive"]
                /\ UNCHANGED stream
       ELSE /\ stream' = "aborted"
            /\ UNCHANGED << sent, chunk_number, driver >>
    /\ n_periods' = n_periods + 1
    /\ UNCHANGED << config, codec, _buffer, played_chunk_number,
                    playback_speed, DAC, csv, rx,
                    first_received_chunk_number, received, last_period >>

\* Echo_Cancellation._record_IO_and_play from the return of self.receive():
\* an empty datagram plays silence; a datagram is unpacked and reshaped
\* into the output frame; any exception on the way plays silence.
EchoRecordIOReceive ==
    /\ driver.class = "Echo_Cancellation"
    /\ driver.callback = "receive"
    /\ \E received_chunk \in EchoDatagrams(frames_per_chunk) :
          LET u == unpack(received_chunk)
          IN  DAC' = IF /\ received_chunk # << >>
                        /\ u.ok
                        /\ Reshapes(u.val[2], frames_per_chunk)
                     THEN u.val[2]
                     ELSE ZeroChunk(frames_per_chunk)
    /\ driver' = [driver EXCEPT !.callback = "idle"]
    /\ UNCHANGED << config, codec, _buffer, chunk_number,
                    played_chunk_number, playback_speed, sent, csv, rx,
                    first_received_chunk_number, stream, received,
                    last_period, n_periods >>

\* Either class of engine, chosen at construction.
InitDrivers == Init \/ InitEcho

NextDrivers ==
    \/ driver.class = "Buffering" /\ Next
    \/ EchoRecordIOSend
    \/ EchoRecordIOReceive

SpecDrivers == InitDrivers /\ [][NextDrivers]_vars

(***************************************************************************)
(* The life of an Echo_Cancellation engine (echo_cancellation_p.py) from   *)
(* its construction: run() and close() called by the main thread, the      *)
(* audio thread of _audio_loop, and the periods of the stream.             *)
(*   audio_thread  "unset" before run() (the attribute does not exist),    *)
(*                 "alive" while _audio_loop runs, "dead" after it          *)
(*   sock          "open" or "closed"                                      *)
(*   close         "idle", or "joining" while a call of close() waits in   *)
(*                 self.audio_thread.join()                                *)
(*   closes        calls of close() begun; returned: calls that returned   *)
(*   raised        a call of close() was left by an exception              *)
(***************************************************************************)
EchoConstructed ==
    [class |-> "Echo_Cancellation", running |-> TRUE, callback |-> "idle",
     audio_thread |-> "unset", sock |-> "open", close |-> "idle",
     closes |-> 0, returned |-> 0, raised |-> FALSE]

\* Echo_Cancellation.__init__: the stream is not created yet.
InitClose ==
    \E to_buffer \in 1..MaxChunksToBuffer, frames \in 1..MaxFrames :
        /\ chunks_to_buffer = to_buffer
        /\ cells_in_buffer = to_buffer * 2
        /\ frames_per_chunk = frames
        /\ _buffer = [i \in 0..(to_buffer * 2 - 1) |-> ZeroChunk(frames)]
        /\ chunk_number = 0
        /\ played_chunk_number = 0
        /\ playback_speed = 100
        /\ DAC = << >>
        /\ sent = << >>
        /\ csv = << >>
        /\ rx = "none"
        /\ first_received_chunk_number = 0
        /\ stream = "unset"
        /\ received = << >>
        /\ last_period = NoPeriod
        /\ n_periods = 0
        /\ codec = CodecIdle
        /\ driver = EchoConstructed
        /\ args = ArgsOf(to_buffer)

\* Echo_Cancellation.run: the stream is created and the audio thread
\* started, which enters "with self.stream".
EchoRun ==
    /\ driver.audio_thread = "unset"
    /\ driver.close = "idle"
    /\ stream' = "active"
    /\ driver' = [driver EXCEPT !.audio_thread = "alive"]
    /\ UNCHANGED << config, codec, _buffer, chunk_number,
                    played_chunk_number, playback_speed, DAC, sent, csv, rx,
                    first_received_chunk_number, received, last_period,
                    n_periods >>

\* Echo_Cancellation._audio_loop leaves its while loop once running is
\* cleared and then its with block, which closes the stream; the stream
\* closes when its callback has returned.
AudioLoopExit ==
    /\ driver.audio_thread = "alive"
    /\ ~driver.running
    /\ driver.callback = "idle"
    /\ stream' = "closed"
    /\ driver' = [driver EXCEPT !.audio_thread = "dead"]
    /\ UNCHANGED << config, codec, _buffer, chunk_number,
                    played_chunk_number, playback_speed, DAC, sent, csv, rx,
                    first_received_chunk_number, received, last_period,
                    n_periods >>

\* Echo_Cancellation.close up to its join: self.running.clear(), then
\* self.audio_thread.is_alive(), which raises AttributeError before run();
\* with the thread dead the socket is closed and the call returns.
EchoClose ==
    /\ driver.close = "idle"
    /\ driver.closes < MaxCloses
    /\ driver' =
          IF driver.audio_thread = "unset"
          THEN [driver EXCEPT !.running = FALSE, !.closes = @ + 1,
                              !.raised = TRUE]
          ELSE IF driver.audio_thread = "alive"
          THEN [driver EXCEPT !.running = FALSE, !.closes = @ + 1,
                              !.close = "joining"]
          ELSE [driver EXCEPT !.running = FALSE, !.closes = @ + 1,
                              !.sock = "closed", !.returned = @ + 1]
    /\ UNCHANGED << config, codec, _buffer, chunk_number,
                    played_chunk_number, playback_speed, DAC, sent, csv, rx,
                    first_received_chunk_number, stream, received,
                    last_period, n_periods >>

\* Echo_Cancellation.close from the return of its join: self.sock.close().
EchoCloseJoined ==
    /\ driver.close = "joining"
    /\ driver.audio_thread = "dead"
    /\ driver' = [driver EXCEPT !.close = "idle", !.sock = "closed",
                                !.returned = @ + 1]
    /\ UNCHANGED << config, codec, _buffer, chunk_number,
                    played_chunk_number, playback_speed, DAC, sent, csv, rx,
                    first_received_chunk_number, stream, received,
                    last_period, n_periods >>

NextClose ==
    \/ EchoRun
    \/ EchoRecordIOSend
    \/ EchoRecordIOReceive
    \/ EchoClose
    \/ AudioLoopExit
    \/ EchoCloseJoined

SpecClose == InitClose /\ [][NextClose]_vars

(***************************************************************************)
(* The same life with the scheduling the code can count on.  The audio     *)
(* thread leaving _audio_loop and the main thread returning from join()    *)
(* are steps of this process: once they can be taken and stay so, they     *)
(* are taken.  The return of self.receive() at line 90 is not: receive()   *)
(* is Minimal.receive, which blocks without a timeout until a datagram of  *)
(* the peer arrives (the transport's contract; minimal.py is not among     *)
(* the sources), close() closes the socket only after the join, and the    *)
(* peer owes no datagram.  Nor is the main thread bound to call run() or   *)
(* close(), or the device to start another period.                         *)
(***************************************************************************)
SpecCloseFair ==
    /\ InitClose
    /\ [][NextClose]_vars
    /\ WF_vars(AudioLoopExit)
    /\ WF_vars(EchoCloseJoined)

\* The life with a peer that goes on sending: every receive() returns.
SpecClosePeerSends == SpecCloseFair /\ WF_vars(EchoRecordIOReceive)

(***************************************************************************)
(* The codec on its own: pack applied to a chunk number and samples, then  *)
(* unpack applied to the bytes pack returned.  The engine is constructed   *)
(* and left alone.                                                         *)
(***************************************************************************)
\* Chunk numbers: the ends of the wire range, of each byte and of the
\* production counter.
CodecNumbers == {0, 255, 256, CHUNK_NUMBERS - 1, CHUNK_NUMBERS, WIRE_RANGE - 1}

\* Samples: the ends of the int16 range, of the low byte, and zero.
CodecSamples ==
    {0 - (INT16_RANGE \div 2), 0 - 256, 0 - 1, 0, 255, 256,
     (INT16_RANGE \div 2) - 1}

RECURSIVE SeqsUpTo(_, _)
SeqsUpTo(S, n) ==
    IF n = 0 THEN { << >> }
    ELSE LET shorter == SeqsUpTo(S, n - 1)
         IN  shorter \cup { Append(q, x) : q \in shorter, x \in S }

\* Bytes of the datagrams given to unpack directly.
WireBytes == {0, 1, 255}

InitCodec ==
    /\ \/ \E number \in CodecNumbers,
              chunk \in SeqsUpTo(CodecSamples, MaxSamples) :
              codec = [stage |-> "input", chunk_number |-> number,
                       chunk |-> chunk]
       \/ \E packed_chunk \in SeqsUpTo(WireBytes, MaxWireLen) :
              codec = [stage |-> "wire", packed |-> packed_chunk]
    /\ chunks_to_buffer = 1
    /\ cells_in_buffer = 2
    /\ frames_per_chunk = 1
    /\ _buffer = [i \in 0..1 |-> ZeroChunk(1)]
    /\ chunk_number = 0
    /\ played_chunk_number = 0
    /\ playback_speed = 100
    /\ DAC = << >>
    /\ sent = << >>
    /\ csv = << >>
    /\ rx = "first"
    /\ first_received_chunk_number = 0
    /\ stream = "active"
    /\ received = << >>
    /\ last_period = NoPeriod
    /\ n_periods = 0
    /\ driver = BufferingDriver
    /\ args = ArgsOf(1)

\* packed_chunk = self.pack(chunk_number, chunk)
CodecPack ==
    /\ codec.stage = "input"
    /\ codec' = [stage |-> "packed", chunk_number |-> codec.chunk_number,
                 chunk |-> codec.chunk,
                 packed |-> pack(codec.chunk_number, codec.chunk)]
    /\ UNCHANGED engine

\* chunk_number, chunk = self.unpack(packed_chunk)
CodecUnpack ==
    /\ codec.stage = "packed"
    /\ codec.packed.ok
    /\ codec' = [stage |-> "unpacked", chunk_number |-> codec.chunk_number,
                 chunk |-> codec.chunk, packed |-> codec.packed,
                 out |-> unpack(codec.packed.val)]
    /\ UNCHANGED engine

\* chunk_number, chunk = self.unpack(packed_chunk), on bytes off the wire
CodecDecode ==
    /\ codec.stage = "wire"
    /\ codec' = [stage |-> "decoded", packed |-> codec.packed,
                 out |-> unpack(codec.packed)]
    /\ UNCHANGED engine

NextCodec ==
    \/ CodecPack
    \/ CodecUnpack
    \/ CodecDecode

SpecCodec == InitCodec /\ [][NextCodec]_vars

(***************************************************************************)
(* Properties.                                                             *)
(***************************************************************************)
Cells == 0..(cells_in_buffer - 1)

\* A period has just run: n_periods counts them.
PeriodStep == n_periods' = n_periods + 1

\* The seed assignment of run() has just run.
SeedStep == rx = "seed" /\ rx' = "loop"

\* C1: whatever datagrams were buffered, periods run and seed made, also
\* after the production counter wrapped, the occupancy the logger wrote and
\* the occupancy the rate controller computed lie in 0..cells_in_buffer-1.
C1_OccupancyInRange ==
    /\ csv # << >> => csv[1] \in Cells
    /\ last_period.ran => last_period.chunks_in_buffer \in Cells

\* C1 witness: the counter has wrapped to 0, the cursor is seeded, and both
\* the controller and the logger have computed a non-zero occupancy.
C1_Witness ==
    /\ n_periods > 0
    /\ chunk_number = 0
    /\ rx = "loop"
    /\ last_period.ran /\ last_period.chunks_in_buffer > 0
    /\ csv # << >> /\ csv[1] > 0

\* C2: the seed assignment leaves the play cursor in the ring and
\* chunks_to_buffer slots behind the first datagram's sequence number s,
\* modulo cells_in_buffer; with 5 chunks to buffer, 10 cells and s = 100
\* the cursor is 5.
C2_Seeding ==
    [][SeedStep =>
        LET s == received[1][1]
        IN  /\ played_chunk_number' \in Cells
            /\ (played_chunk_number' + chunks_to_buffer - s) % cells_in_buffer = 0
            /\ (chunks_to_buffer = 5 /\ s = 100) => played_chunk_number' = 5
      ]_vars

\* C2 witness: seeded from s = 0, below chunks_to_buffer = 5; the cursor
\* stands at 5 and no period has moved it since.
C2_Witness ==
    /\ rx = "loop"
    /\ Len(received) = 1 /\ received[1][1] = 0
    /\ chunks_to_buffer = 5
    /\ played_chunk_number = 5
    /\ last_period = NoPeriod

\* The write that decides slot k: the last buffered datagram whose sequence
\* number is congruent to k, if any.
WritesTo(k) == { i \in 1..Len(received) : received[i][1] % cells_in_buffer = k }

LastOf(I) == CHOOSE i \in I : \A j \in I : j <= i

Silent(chunk) ==
    /\ Len(chunk) = frames_per_chunk * NUMBER_OF_CHANNELS
    /\ \A i \in 1..Len(chunk) : chunk[i] = 0

\* C3: the ring has cells_in_buffer slots; each holds the chunk of the most
\* recent buffered datagram whose sequence number is congruent to its index
\* (whatever its order, freshness or size), or silence if there is none.
C3_LaterWriteWins ==
    /\ DOMAIN _buffer = Cells
    /\ \A k \in Cells :
          IF WritesTo(k) = {}
          THEN Silent(_buffer[k])
          ELSE _buffer[k] = received[LastOf(WritesTo(k))][2]

\* C3 witness: 5 then 15 were buffered in a ring of 10 cells and no period
\* has run; slot 5 holds the chunk of 15.
C3_Witness ==
    /\ cells_in_buffer = 10
    /\ Len(received) = 2 /\ received[1][1] = 5 /\ received[2][1] = 15
    /\ received[1][2] # received[2][2]
    /\ _buffer[5] = received[2][2]
    /\ last_period = NoPeriod

\* C4: a period returns the chunk in the slot the play cursor points at and
\* moves the cursor to the next slot, the first after the last, whatever
\* speed it chose and whatever the slot held.
C4_ReadNextAdvancesByOne ==
    [][PeriodStep =>
        /\ played_chunk_number \in Cells
        /\ last_period'.chunk = _buffer[played_chunk_number]
        /\ played_chunk_number' =
              IF played_chunk_number = cells_in_buffer - 1
              THEN 0
              ELSE played_chunk_number + 1
      ]_vars

\* C4 witness: a period that chose a speed below 1.00 and played a slot no
\* datagram was written to; the cursor has wrapped to slot 0.
C4_Witness ==
    /\ last_period.ran
    /\ playback_speed \in {60, 80, 95}
    /\ WritesTo(last_period.slot) = {}
    /\ received # << >>
    /\ last_period.slot = cells_in_buffer - 1
    /\ played_chunk_number = 0

\* C5: a period that lands on a slot no datagram was ever written to
\* returns silence of one chunk's size and completes without raising, and
\* what it leaves in the output frame is silence.
C5_UnderrunPlaysSilence ==
    (last_period.ran /\ WritesTo(last_period.slot) = {}) =>
        /\ Silent(last_period.chunk)
        /\ ~last_period.raised
        /\ Silent(DAC)
        /\ stream # "aborted"

\* C5 witness: in a ring of 2 cells the third period lands on slot 1 for
\* the second time; datagrams were buffered, none in slot 1.
C5_Witness ==
    /\ cells_in_buffer = 2
    /\ n_periods = 3
    /\ last_period.ran /\ last_period.slot = 1
    /\ received # << >>
    /\ WritesTo(1) = {}
    /\ rx = "first" \/ rx = "loop"

\* C6: the occupancy the rate controller computes in a period is the
\* distance from the play cursor to the sequence number of the datagram
\* buffered last, modulo cells_in_buffer.
C6_OccupancyFromReceived ==
    [][(PeriodStep /\ rx = "loop") =>
        last_period'.chunks_in_buffer =
            (received[Len(received)][1] - played_chunk_number) % cells_in_buffer
      ]_vars

Speeds == {105, 95, 80, 60, 100}

\* C7: for the configured target, every occupancy of the ring has a speed
\* among 1.05, 0.95, 0.80, 0.60 and 1.00, and the speed is 1.05 from
\* occupancy target - 2 upwards; the speed a period sets is such a speed.
C7_ControllerTotal ==
    /\ \A o \in Cells :
          /\ adjust_playback_speed(o, chunks_to_buffer) \in Speeds
          /\ o >= chunks_to_buffer - 2 =>
                 adjust_playback_speed(o, chunks_to_buffer) = 105
    /\ last_period.ran =>
          /\ playback_speed \in Speeds
          /\ last_period.chunks_in_buffer >= chunks_to_buffer - 2 =>
                 playback_speed = 105

\* C7 witness: with a target of 6, a period saw exactly target - 2 = 4
\* chunks and set 1.05.
C7_Witness ==
    /\ chunks_to_buffer = 6
    /\ last_period.ran
    /\ last_period.chunks_in_buffer = 4
    /\ playback_speed = 105

SlowSpeed(o) ==
    IF o = 3 THEN 95 ELSE IF o = 2 THEN 80 ELSE IF o = 1 THEN 60 ELSE 100

\* C8 as claimed: for every target, occupancy 3 gives 0.95, 2 gives 0.80,
\* 1 gives 0.60 and 0 gives 1.00.
C8_AsClaimed ==
    last_period.ran /\ last_period.chunks_in_buffer \in 0..3 =>
        playback_speed = SlowSpeed(last_period.chunks_in_buffer)

\* C8 amended: for every target, an occupancy below target - 2 gives 0.95
\* when it is 3, 0.80 when it is 2, 0.60 when it is 1 and 1.00 when it
\* is 0; from target - 2 upwards the speed is 1.05 (C7).
C8_SlowBelowTarget ==
    /\ \A o \in Cells :
          (o <= 3 /\ o < chunks_to_buffer - 2) =>
              adjust_playback_speed(o, chunks_to_buffer) = SlowSpeed(o)
    /\ ( /\ last_period.ran
         /\ last_period.chunks_in_buffer <= 3
         /\ last_period.chunks_in_buffer < chunks_to_buffer - 2 ) =>
              playback_speed = SlowSpeed(last_period.chunks_in_buffer)

\* C8 witness: with a target of 6, a period saw 3 chunks and set 0.95.
C8_Witness ==
    /\ chunks_to_buffer = 6
    /\ last_period.ran
    /\ last_period.chunks_in_buffer = 3
    /\ playback_speed = 95

\* round(frames * speed), halves upwards.
RoundedFrames(frames, speed) == (2 * frames * speed + 100) \div 200

\* The output frame that holds the n leading frames of chunk and zeros.
LeadingFrames(chunk, n) ==
    [i \in 1..(frames_per_chunk * NUMBER_OF_CHANNELS) |->
        IF i <= n * NUMBER_OF_CHANNELS THEN chunk[i] ELSE 0]

\* A period has rendered a chunk of the configured size.
Rendered == last_period.ran /\ ~last_period.raised

\* C9 as claimed: the output frame holds the min(round(frames * speed),
\* frames) leading frames of the due chunk and zeros after them.
C9_AsClaimed ==
    Rendered =>
        DAC = LeadingFrames(last_period.chunk,
                  Min(RoundedFrames(frames_per_chunk, playback_speed),
                      frames_per_chunk))

\* C9 amended: the output frame holds the min(floor(frames * speed), frames)
\* leading frames of the due chunk (the product is truncated, not rounded)
\* and zeros after them; it has frames_per_chunk frames, and at a speed of
\* 1.00 or more it is the whole chunk.
C9_RenderTruncated ==
    Rendered =>
        /\ DOMAIN DAC = 1..(frames_per_chunk * NUMBER_OF_CHANNELS)
        /\ DAC = LeadingFrames(last_period.chunk,
                     Min((frames_per_chunk * playback_speed) \div 100,
                         frames_per_chunk))
        /\ playback_speed >= 100 => DAC = last_period.chunk

\* C9 witness: at speed 0.80 and 2 frames a chunk, the first frame of an
\* audible chunk was copied and the second zeroed (round would copy both).
C9_Witness ==
    /\ Rendered
    /\ frames_per_chunk = 2
    /\ playback_speed = 80
    /\ \A i \in 1..Len(last_period.chunk) : last_period.chunk[i] # 0
    /\ \A i \in 1..Len(DAC) :
          DAC[i] = IF i <= NUMBER_OF_CHANNELS THEN last_period.chunk[i] ELSE 0

\* C10: unpack of what pack returned for a chunk number of the wire range
\* and int16 samples returns that chunk number and those samples in order.
C10_RoundTrip ==
    codec.stage = "unpacked" =>
        /\ codec.out.ok
        /\ codec.out.val = << codec.chunk_number, codec.chunk >>

\* C10 witness: the largest chunk number with the two ends of the sample
\* range has been packed to six bytes and unpacked.
C10_Witness ==
    /\ codec.stage = "unpacked"
    /\ codec.chunk_number = WIRE_RANGE - 1
    /\ codec.chunk = << 0 - (INT16_RANGE \div 2), (INT16_RANGE \div 2) - 1 >>
    /\ Len(codec.packed.val) = 6
    /\ codec.out.ok

\* C11: what pack returns for a chunk number of the wire range has
\* 2 + 2 * len(samples) bytes; the first is the number \div 256, the second
\* the number % 256, and each following pair of bytes is one sample, in
\* order, with nothing after the last.
C11_PackLayout ==
    codec.stage \in {"packed", "unpacked"} =>
        /\ codec.packed.ok
        /\ LET b == codec.packed.val
               n == Len(codec.chunk)
           IN  /\ Len(b) = 2 + 2 * n
               /\ b[1] = codec.chunk_number \div 256
               /\ b[2] = codec.chunk_number % 256
               /\ \A i \in 1..Len(b) : b[i] \in 0..255
               /\ \A i \in 1..n :
                     (b[2 * i + 1] + 256 * b[2 * i + 2] - codec.chunk[i])
                         % INT16_RANGE = 0

\* C11 witness: chunk number 256 with the samples -1 and 256 is packed to
\* the six bytes 1, 0, 255, 255, 0, 1.
C11_Witness ==
    /\ codec.stage = "packed"
    /\ codec.chunk_number = 256
    /\ codec.chunk = << 0 - 1, 256 >>
    /\ codec.packed.val = << 1, 0, 255, 255, 0, 1 >>

MalformedPacket == "MalformedPacket"

\* Bytes the claim calls malformed: fewer than 2, or an odd payload.
TooShort(b) == Len(b) < 2
OddPayload(b) == Len(b) >= 2 /\ (Len(b) - 2) % 2 = 1

\* C12 as claimed: unpack of malformed bytes fails with the one error kind
\* MalformedPacket.
C12_AsClaimed ==
    (codec.stage = "decoded" /\ (TooShort(codec.packed) \/ OddPayload(codec.packed)))
        => (~codec.out.ok /\ codec.out.err = MalformedPacket)

\* C12 amended: unpack of fewer than 2 bytes raises struct.error, unpack of
\* bytes with an odd payload raises ValueError; in neither case does it
\* return a value, and it raises for no other bytes.
C12_UnpackRejects ==
    codec.stage = "decoded" =>
        /\ TooShort(codec.packed) =>
              (~codec.out.ok /\ codec.out.err = StructError)
        /\ OddPayload(codec.packed) =>
              (~codec.out.ok /\ codec.out.err = ValueError)
        /\ ~codec.out.ok => codec.out.val = << >>
        /\ codec.out.ok <=> ~(TooShort(codec.packed) \/ OddPayload(codec.packed))

\* C12 witness: three bytes, a number and half a sample, were refused with
\* ValueError.
C12_Witness ==
    /\ codec.stage = "decoded"
    /\ Len(codec.packed) = 3
    /\ ~codec.out.ok
    /\ codec.out.err = ValueError

\* C13: a malformed datagram is dropped and the receive loop continues: no
\* datagram ends the receive loop, so that every well-formed datagram that
\* arrives afterwards is still decoded and written into the ring.
C13_ReceiveLoopContinues == rx # "dead" /\ stream # "closed"

\* C14: a period whose send fails still plays: the rate controller is
\* evaluated, the due chunk is read and rendered to the output frame, the
\* play cursor advances by one and the stream goes on.
C14_SendFailureKeepsPlayback ==
    [][RecordIOSendFails =>
        LET in_buffer == ChunksInBuffer(chunk_number', played_chunk_number,
                                        cells_in_buffer)
            speed == adjust_playback_speed(in_buffer, chunks_to_buffer)
            chunk == unbuffer_next_chunk(_buffer, cells_in_buffer,
                                         played_chunk_number)
        IN  /\ playback_speed' = speed
            /\ played_chunk_number' =
                   AdvancePlayed(played_chunk_number, cells_in_buffer)
            /\ Reshapes(chunk, frames_per_chunk) =>
                   DAC' = Render(DAC', chunk, frames_per_chunk, speed)
            /\ stream' = "active"
      ]_vars

\* The chunk number in the two leading bytes of a packet.
Header(packet) == packet[1] * 256 + packet[2]

\* C15: in every period (1) the production counter is incremented modulo
\* CHUNK_NUMBERS, (2) the captured frame is packed with the new counter
\* value and sent, (3) the rate controller is evaluated on the occupancy
\* taken from the new counter and the play cursor as it is before this
\* period's advance, (4) the chunk under that cursor is read and rendered
\* with the speed chosen in this same period.
C15_PeriodOrder ==
    [][PeriodStep =>
        LET number == (chunk_number + 1) % CHUNK_NUMBERS
            occupancy == (number - played_chunk_number) % cells_in_buffer
            speed == adjust_playback_speed(occupancy, chunks_to_buffer)
            chunk == _buffer[played_chunk_number % cells_in_buffer]
        IN  /\ chunk_number' = number
            /\ sent' = pack(number, Captured(frames_per_chunk)).val
            /\ Header(sent') = number
            /\ last_period'.chunks_in_buffer = occupancy
            /\ playback_speed' = speed
            /\ last_period'.chunk = chunk
            /\ ~last_period'.raised =>
                  DAC' = LeadingFrames(chunk,
                             Min((frames_per_chunk * speed) \div 100,
                                 frames_per_chunk))
      ]_vars

\* C15 witness: a later period rendered part of an audible chunk at a speed
\* below 1.00 that differs from the speed before it and from the speed the
\* occupancy after the cursor's advance would give.
C15_Witness ==
    /\ Rendered
    /\ n_periods >= 2
    /\ playback_speed \in {60, 80, 95}
    /\ \E i \in 1..Len(last_period.chunk) : last_period.chunk[i] # 0
    /\ DAC # last_period.chunk
    /\ adjust_playback_speed(
           ChunksInBuffer(chunk_number, played_chunk_number, cells_in_buffer),
           chunks_to_buffer) # playback_speed

\* C17 as claimed: the chunk number on the wire grows by one with every
\* packet and wraps at 65536: after 32767 comes 32768.
C17_AsClaimed ==
    [][(PeriodStep /\ sent # << >>) =>
        Header(sent') = (Header(sent) + 1) % WIRE_RANGE
      ]_vars

\* C17 amended: the chunk number on the wire grows by one with every packet
\* and wraps at CHUNK_NUMBERS = 32768: after 32767 comes 0, and no packet
\* carries a number of 32768 or more.
C17_WrapsAtChunkNumbers ==
    [][PeriodStep =>
        /\ Header(sent') = chunk_number'
        /\ Header(sent') \in 0..(CHUNK_NUMBERS - 1)
        /\ sent # << >> =>
              Header(sent') = IF Header(sent) = CHUNK_NUMBERS - 1
                              THEN 0
                              ELSE Header(sent) + 1
      ]_vars

\* C17 witness: the packet after the one numbered 32767 has been sent, and
\* it is numbered 0.
C17_Witness ==
    /\ n_periods = 2
    /\ last_period.ran
    /\ chunk_number = 0
    /\ Header(sent) = 0

\* C18 as claimed: no period reads from the ring or advances the play
\* cursor before the cursor has been seeded.
C18_AsClaimed == [][PeriodStep => rx = "loop"]_vars

\* C18 amended: periods run from the start of the stream, before the first
\* datagram has been received: each of them reads a cell of silence,
\* renders silence without raising and advances the play cursor by one;
\* the seed assignment then sets the cursor chunks_to_buffer slots behind
\* the first sequence number whatever those periods made of it.
C18_SilenceUntilSeeded ==
    [][ /\ (PeriodStep /\ rx = "first") =>
              /\ Silent(last_period'.chunk)
              /\ ~last_period'.raised
              /\ Silent(DAC')
              /\ stream' = "active"
              /\ played_chunk_number' =
                     (played_chunk_number + 1) % cells_in_buffer
        /\ SeedStep =>
              played_chunk_number' =
                  (received[1][1] - chunks_to_buffer) % cells_in_buffer
      ]_vars

\* C18 witness: two periods have run and moved the cursor, the first
\* datagram is buffered and the seed assignment, which is about to run,
\* will move the cursor elsewhere.
C18_Witness ==
    /\ rx = "seed"
    /\ n_periods = 2
    /\ Rendered
    /\ Silent(DAC)
    /\ played_chunk_number # 0
    /\ played_chunk_number #
           (received[1][1] - chunks_to_buffer) % cells_in_buffer

\* C19: the receive loop is entered once, by the seed assignment that
\* follows the first datagram decoded, and it is not left for the states
\* before it; from then on the play cursor is never assigned from a
\* sequence number: only a period moves it, by one.
C19_SeededOnce ==
    [][ /\ (rx # "loop" /\ rx' = "loop") =>
              /\ rx = "seed"
              /\ Len(received) = 1
              /\ first_received_chunk_number = received[1][1]
        /\ rx = "loop" => rx' \in {"loop", "dead"}
        /\ rx = "dead" => rx' = "dead"
        /\ (rx = "loop" /\ played_chunk_number' # played_chunk_number) =>
              /\ PeriodStep
              /\ received' = received
              /\ played_chunk_number' =
                     (played_chunk_number + 1) % cells_in_buffer
        /\ (rx = "loop" /\ received' # received) =>
              played_chunk_number' = played_chunk_number
      ]_vars

\* C19 witness: a second datagram has been buffered in the receive loop and
\* no period has run; the cursor stands where the first datagram's number
\* put it, which is not where the second's would.
C19_Witness ==
    /\ rx = "loop"
    /\ Len(received) = 2
    /\ n_periods = 0
    /\ played_chunk_number =
           (received[1][1] - chunks_to_buffer) % cells_in_buffer
    /\ played_chunk_number #
           (received[2][1] - chunks_to_buffer) % cells_in_buffer

\* A step that hands a packet to the transport.
Transmits == sent' # sent

C20_NoReceiveInCallback ==
    driver.class = "Echo_Cancellation" => driver.callback # "receive"

\* C21: no call of close() faults, whatever the state it is made in.
C21_CloseNeverFaults == ~driver.raised

\* C22: once close() has been called no period sends a packet or writes
\* the output frame, no datagram is consumed, and nothing returns the
\* stream to running.
C22_CloseIsTerminal ==
    [][driver.closes > 0 =>
        /\ sent' = sent
        /\ DAC' = DAC
        /\ driver'.callback = driver.callback
        /\ stream' = "active" => stream = "active"
      ]_vars

\* C23: the constructor coerces a buffering time of 0 or less to 1 ms,
\* chunks_to_buffer is the ceiling of buffering time over chunk time and
\* at least 1, cells_in_buffer is twice that, the ring has cells_in_buffer
\* slots, all silent until a datagram is buffered, and no operation
\* changes any of this.
C23_Construction ==
    /\ args.buffering_time = IF args.given <= 0 THEN 1 ELSE args.given
    /\ chunks_to_buffer * args.chunk_time >= args.buffering_time
    /\ (chunks_to_buffer - 1) * args.chunk_time < args.buffering_time
    /\ chunks_to_buffer >= 1
    /\ cells_in_buffer = 2 * chunks_to_buffer
    /\ DOMAIN _buffer = 0..(cells_in_buffer - 1)
    /\ received = << >> => \A i \in DOMAIN _buffer : Silent(_buffer[i])

\* C24 as claimed: no engine exists that was constructed with a buffering
\* time of 0 or less.
C24_AsClaimed == args.given > 0

\* C24 amended: construction with a buffering time of 0 or less does not
\* fail: the time is set to 1 ms and the engine has one chunk to buffer
\* and a ring of two cells.
C24_NonPositiveCoerced ==
    args.given <= 0 =>
        /\ args.buffering_time = 1
        /\ chunks_to_buffer = 1
        /\ cells_in_buffer = 2
        /\ DOMAIN _buffer = 0..1

\* C24 witness: an engine given -5 ms has been seeded and has played.
C24_Witness ==
    /\ args.given = 0 - 5
    /\ rx = "loop"
    /\ Rendered
    /\ stream = "active"

\* Reads that come before the read of the first datagram's slot.
ReadsBeforeFirst ==
    (received[1][1] - played_chunk_number) % cells_in_buffer

C25_NoTornReads ==
    last_period.ran =>
        /\ Len(last_period.chunk) = frames_per_chunk * NUMBER_OF_CHANNELS
        /\ \/ Silent(last_period.chunk)
           \/ \E i \in WritesTo(last_period.slot) :
                 last_period.chunk = received[i][2]

\* C27: a period during which the seed assignment ran (the cursor is not
\* what the period loaded) leaves the cursor at the seed value or one
\* after it.
C27_SeedNotLost ==
    [][(driver.callback = "store" /\ driver'.callback = "idle"
          /\ rx = "loop" /\ played_chunk_number # driver.played_read) =>
        LET seed == (received[1][1] - chunks_to_buffer) % cells_in_buffer
        IN  played_chunk_number' \in {seed, (seed + 1) % cells_in_buffer}
      ]_vars

\* The occupancy the next period would hand to the rate controller.
NextOccupancy ==
    ChunksInBuffer(NextChunkNumber(chunk_number), played_chunk_number,
                   cells_in_buffer)

\* C28: the occupancy the rate controller sees responds to the network:
\* once seeded, buffering a datagram changes the occupancy the next period
\* computes, and a period lowers the occupancy the period after it will
\* compute if no datagram arrives.
C28_OccupancyFollowsNetwork ==
    [][ /\ (rx = "loop" /\ received' # received) =>
              NextOccupancy' # NextOccupancy
        /\ (rx = "loop" /\ PeriodStep) =>
              NextOccupancy' < NextOccupancy
      ]_vars

\* C29: the slot of each chunk sent is the slot after that of the chunk
\* sent before it, for every ring size, the pair of chunks around the
\* counter's wrap included.
C29_SlotContinuity ==
    [][(PeriodStep /\ sent # << >>) =>
        Header(sent') % cells_in_buffer =
            ((Header(sent) % cells_in_buffer) + 1) % cells_in_buffer
      ]_vars

\* C30: every chunk a period reads has frames_per_chunk *
\* NUMBER_OF_CHANNELS samples, whatever datagrams were received, and its
\* rendering does not fail.
C30_ChunkSize ==
    /\ \A k \in DOMAIN _buffer :
          Len(_buffer[k]) = frames_per_chunk * NUMBER_OF_CHANNELS
    /\ last_period.ran =>
          /\ Len(last_period.chunk) =
                 frames_per_chunk * NUMBER_OF_CHANNELS
          /\ ~last_period.raised
    /\ stream # "aborted"

\* C31: in the echo-cancellation driver a close() called while streaming
\* eventually returns, the audio thread joined and the socket closed,
\* even if the peer never sends another datagram: a close() waiting in
\* join() leads to close() being over with the socket closed.
C31_CloseReturns ==
    (driver.close = "joining") ~>
        (driver.close = "idle" /\ driver.sock = "closed")

====
